---- MODULE Spec2Model ----
(***************************************************************************)
(* Layered configuration resolution of rhc (package internal/conf):        *)
(* Config.Update, parseConfigDTO, ConfigSource.findDropInFiles,            *)
(* ConfigSource.parseDropInFiles and ConfigSource.Read, over a small       *)
(* filesystem.                                                             *)
(*                                                                         *)
(* Strings that are only compared for equality (field values, log-level    *)
(* tokens) are TLA+ strings.  File names and directory paths are sequences *)
(* of one-character strings, ordered byte-wise through Ord, because the    *)
(* code sorts them and tests their suffix.  An optional value (a *string   *)
(* of configDTO) is a set: {} is nil, {v} is a pointer to v.               *)
(***************************************************************************)
EXTENDS Integers, Sequences, FiniteSets, TLC

VARIABLES
    defaultConfig,  \* the embedded document (var defaultConfig)
    fs,             \* the filesystem: main file, drop-in directory, entries
    cs,             \* the ConfigSource: Path, DropInDir
    pc,             \* position of the running call
    resolved,       \* Read's local accumulator; Update's receiver
    paths,          \* parseDropInFiles: result of findDropInFiles
    dtos,           \* parseDropInFiles: DTOs loaded so far
    result,         \* what Read returned: [config, err]
    ioLog,          \* filesystem calls made by the running Read, in order
    before,         \* Update: the receiver's value when Update was called
    overlay,        \* Update: the configDTO argument
    Configuration,  \* the process-wide store (var Configuration)
    phase,          \* "init" while func init() runs, then "main" or "panic"
    writes,         \* how many times Configuration has been assigned
    prev,           \* what the previous Read call of this goroutine returned
    peer,           \* the locals of a second goroutine's Read call
    Global,         \* pkg/config: var Global
    ctx,            \* the command's *cli.Context: flags and output mode
    act,            \* the running command action: position, locals, result
    calls           \* what the action has asked of the system, in order

vars == <<defaultConfig, fs, cs, pc, resolved, paths, dtos, result, ioLog,
          before, overlay, Configuration, phase, writes, prev, peer,
          Global, ctx, act, calls>>

\* The rhc command (cmd/rhc).
cli == <<Global, ctx, act, calls>>

\* What lies outside a Read or Update call.
process == <<Configuration, phase, writes, prev, peer, cli>>

\* Package internal/conf.
conf == <<defaultConfig, fs, cs, pc, resolved, paths, dtos, result, ioLog,
          before, overlay, Configuration, phase, writes, prev, peer>>

-----------------------------------------------------------------------------
(* Bounds *)

\* Number of names that may exist in the drop-in directory.
MaxEntries == 3

-----------------------------------------------------------------------------
(* Byte strings *)

\* Byte value of the characters used in names and paths (ASCII).
Ord(ch) ==
    CASE ch = "-" -> 45 [] ch = "." -> 46 [] ch = "/" -> 47
      [] ch = "0" -> 48 [] ch = "1" -> 49 [] ch = "2" -> 50 [] ch = "5" -> 53
      [] ch = "9" -> 57 [] ch = "c" -> 99 [] ch = "d" -> 100 [] ch = "f" -> 102
      [] ch = "l" -> 108 [] ch = "m" -> 109 [] ch = "n" -> 110
      [] ch = "o" -> 111 [] ch = "t" -> 116

\* Go's < on strings: byte-wise lexicographic order.
StrLess(a, b) ==
    \E k \in 0..Len(a) :
        /\ k <= Len(b)
        /\ \A i \in 1..k : a[i] = b[i]
        /\ \/ k = Len(a) /\ k < Len(b)
           \/ k < Len(a) /\ k < Len(b) /\ Ord(a[k + 1]) < Ord(b[k + 1])

\* Fault: the suffix is looked for anywhere in the string, by its first
\* byte.
HasSuffixAnywhere(s, suffix) ==
    \E i \in 1..Len(s) : s[i] = suffix[1]

\* strings.HasSuffix
HasSuffix(s, suffix) ==
    /\ Len(s) >= Len(suffix)
    /\ SubSeq(s, Len(s) - Len(suffix) + 1, Len(s)) = suffix

\* filepath.Clean, for paths without "." and ".." elements: runs of
\* separators collapse to one and a trailing separator is dropped.
RECURSIVE Clean(_)
Clean(p) ==
    IF Len(p) <= 1 THEN p
    ELSE IF p[Len(p)] = "/" THEN Clean(SubSeq(p, 1, Len(p) - 1))
    ELSE IF p[1] = "/" /\ p[2] = "/" THEN Clean(Tail(p))
    ELSE <<p[1]>> \o Clean(Tail(p))

\* filepath.Join of two elements.
Join(dir, name) ==
    IF dir = <<>> THEN Clean(name) ELSE Clean(dir \o <<"/">> \o name)

\* filepath.Base of a cleaned path: what follows the last separator.
RECURSIVE Base(_)
Base(p) ==
    IF \A i \in 1..Len(p) : p[i] # "/" THEN p ELSE Base(Tail(p))

\* Fault: the element is put at the end without a comparison.
InsertSortedAtEnd(x, s) == Append(s, x)

\* sort.Strings: ascending by StrLess (insertion into a sorted sequence).
RECURSIVE InsertSorted(_, _)
InsertSorted(x, s) ==
    IF s = <<>> THEN <<x>>
    ELSE IF StrLess(x, Head(s)) THEN <<x>> \o s
    ELSE <<Head(s)>> \o InsertSorted(x, Tail(s))

RECURSIVE SortStrings(_)
SortStrings(s) ==
    IF s = <<>> THEN <<>> ELSE InsertSorted(Head(s), SortStrings(Tail(s)))

-----------------------------------------------------------------------------
(* Documents, configDTO and Config *)

\* Keys a TOML document may define: the four of configDTO's tags and one
\* key the struct does not know.
RecognizedKeys == {"cert-file", "key-file", "log-level", "ca-dir"}
Keys == RecognizedKeys \cup {"extra"}

NoKeys == [k \in Keys |-> {}]

\* A document: whether toml.Unmarshal can decode it, and the string value
\* of each key it defines.
Doc(kv) == [wellformed |-> TRUE, kv |-> kv]
Malformed == [wellformed |-> FALSE, kv |-> NoKeys]
EmptyDoc == Doc(NoKeys)

\* configDTO: four *string fields.
NilDTO == [CertFile |-> {}, KeyFile |-> {}, LogLevel |-> {}, CADir |-> {}]

Fields == {"CertFile", "KeyFile", "LogLevel", "CADir"}

\* log/slog's levels, by name.
SlogLevel(name) ==
    CASE name = "DEBUG" -> 0 - 4
      [] name = "INFO" -> 0
      [] name = "WARN" -> 4
      [] name = "ERROR" -> 8

LevelNames == {"DEBUG", "INFO", "WARN", "ERROR"}

\* Config{}: Go's zero value (slog.Level(0) is LevelInfo).
ZeroConfig == [CADir |-> "", CertFile |-> "", KeyFile |-> "", LogLevel |-> 0]

\* The value of a non-nil pointer.
Deref(p) == CHOOSE v \in p : TRUE

\* Fault: strict decoding, a key without a field is an error.
parseConfigDTOStrict(data) ==
    IF ~data.wellformed \/ data.kv["extra"] # {}
    THEN [dto |-> NilDTO, err |-> "parse"]
    ELSE [dto |-> [CertFile |-> data.kv["cert-file"],
                   KeyFile  |-> data.kv["key-file"],
                   LogLevel |-> data.kv["log-level"],
                   CADir    |-> data.kv["ca-dir"]],
          err |-> "nil"]

\* parseConfigDTO: toml.Unmarshal into a configDTO.  Keys without a field
\* are dropped; a document that does not decode gives an error.
parseConfigDTO(data) ==
    IF ~data.wellformed
    THEN [dto |-> NilDTO, err |-> "parse"]
    ELSE [dto |-> [CertFile |-> data.kv["cert-file"],
                   KeyFile  |-> data.kv["key-file"],
                   LogLevel |-> data.kv["log-level"],
                   CADir    |-> data.kv["ca-dir"]],
          err |-> "nil"]

\* Config.Update, one field at a time in the order of the code.
UpdateCertFile(c, dto) ==
    IF dto.CertFile # {} THEN [c EXCEPT !.CertFile = Deref(dto.CertFile)] ELSE c

\* Fault: a value field instead of a pointer, so a nil key-file writes "".
UpdateKeyFileZeroing(c, dto) ==
    [c EXCEPT !.KeyFile = IF dto.KeyFile # {} THEN Deref(dto.KeyFile) ELSE ""]

UpdateKeyFile(c, dto) ==
    IF dto.KeyFile # {} THEN [c EXCEPT !.KeyFile = Deref(dto.KeyFile)] ELSE c

\* Fault: a default case that sets INFO for an unrecognised token.
UpdateLogLevelCoercing(c, dto) ==
    IF dto.LogLevel = {} THEN c
    ELSE IF Deref(dto.LogLevel) \in LevelNames
    THEN [c EXCEPT !.LogLevel = SlogLevel(Deref(dto.LogLevel))]
    ELSE [c EXCEPT !.LogLevel = SlogLevel("INFO")]

\* Fault: a default case that stores a level between INFO and WARN.
UpdateLogLevelOffScale(c, dto) ==
    IF dto.LogLevel = {} THEN c
    ELSE IF Deref(dto.LogLevel) \in LevelNames
    THEN [c EXCEPT !.LogLevel = SlogLevel(Deref(dto.LogLevel))]
    ELSE [c EXCEPT !.LogLevel = 2]

\* Lines 57-68: the switch has no default case.
UpdateLogLevel(c, dto) ==
    IF dto.LogLevel # {} /\ Deref(dto.LogLevel) \in LevelNames
    THEN [c EXCEPT !.LogLevel = SlogLevel(Deref(dto.LogLevel))]
    ELSE c

UpdateCADir(c, dto) ==
    IF dto.CADir # {} THEN [c EXCEPT !.CADir = Deref(dto.CADir)] ELSE c

Update(c, dto) ==
    UpdateCADir(UpdateLogLevel(UpdateKeyFile(UpdateCertFile(c, dto), dto), dto), dto)

\* The range loop of Read over the loaded drop-in DTOs.
RECURSIVE ApplyAll(_, _)
ApplyAll(c, ds) ==
    IF ds = <<>> THEN c ELSE ApplyAll(Update(c, Head(ds)), Tail(ds))

-----------------------------------------------------------------------------
(* The filesystem *)

\* Names an entry of the drop-in directory may have.  Byte-wise,
\* "10.toml" < "2.toml" < "5.conf" < "9.toml".
AllNames ==
    << <<"1", "0", ".", "t", "o", "m", "l">>,
       <<"9", ".", "t", "o", "m", "l">>,
       <<"5", ".", "c", "o", "n", "f">>,
       <<"2", ".", "t", "o", "m", "l">>,
       <<"1", ".", "t", "o", "m", "l">> >>

Names == {AllNames[i] : i \in 1..MaxEntries}

TomlSuffix == <<".", "t", "o", "m", "l">>

\* Documents found in files.
DocPool ==
    { EmptyDoc,
      Doc([NoKeys EXCEPT !["cert-file"] = {"/a"}, !["log-level"] = {"INFO"},
                          !["ca-dir"] = {"/a"}, !["extra"] = {"x"}]),
      Doc([NoKeys EXCEPT !["cert-file"] = {""}, !["ca-dir"] = {""},
                          !["log-level"] = {"ERROR"}]),
      Doc([NoKeys EXCEPT !["key-file"] = {"/b"}, !["log-level"] = {"DEBUG"}]),
      Doc([NoKeys EXCEPT !["cert-file"] = {"/b"}, !["log-level"] = {"TRACE"}]),
      Malformed }

\* What a path names: nothing, a directory, a file that cannot be read
\* (permission, I/O fault), or a readable file with its content.
NoFile == [kind |-> "absent", data |-> EmptyDoc]
SubDir == [kind |-> "dir", data |-> EmptyDoc]
Unreadable == [kind |-> "denied", data |-> EmptyDoc]
File(doc) == [kind |-> "file", data |-> doc]

MainStates == {NoFile, Unreadable} \cup {File(d) : d \in DocPool}
EntryStates == {NoFile, SubDir, Unreadable} \cup {File(d) : d \in DocPool}

\* The drop-in directory is missing, cannot be listed, or is a directory
\* with entries.
Filesystems ==
    { [main |-> m, dir |-> "absent", entries |-> [n \in Names |-> NoFile]]
        : m \in MainStates }
    \cup
    { [main |-> m, dir |-> "denied", entries |-> [n \in Names |-> NoFile]]
        : m \in MainStates }
    \cup
    { [main |-> m, dir |-> "ok", entries |-> e]
        : m \in MainStates, e \in [Names -> EntryStates] }

\* The embedded data/etc/config.toml: every field defined, log level INFO
\* and the paths empty.
DefaultDoc ==
    Doc([NoKeys EXCEPT !["cert-file"] = {""}, !["key-file"] = {""},
                        !["log-level"] = {"INFO"}, !["ca-dir"] = {""}])

\* The ConfigSource of init: a main path, and a drop-in directory written
\* with a trailing separator.
MainPath == <<"/", "c">>
DropInDir == <<"/", "d", "/">>

\* os.ReadFile of the main path.
ReadMain(f) ==
    CASE f.main.kind = "absent" -> [data |-> EmptyDoc, err |-> "ENOENT"]
      [] f.main.kind = "file" -> [data |-> f.main.data, err |-> "nil"]
      [] OTHER -> [data |-> EmptyDoc, err |-> "EACCES"]

\* os.ReadFile of a path inside the drop-in directory.
ReadEntry(f, path) ==
    LET name == Base(path) IN
    IF f.dir # "ok" \/ name \notin Names \/ f.entries[name].kind = "absent"
    THEN [data |-> EmptyDoc, err |-> "ENOENT"]
    ELSE IF f.entries[name].kind = "file"
    THEN [data |-> f.entries[name].data, err |-> "nil"]
    ELSE [data |-> EmptyDoc, err |-> "EACCES"]

\* os.Stat of the drop-in directory: the error it returns.
Stat(f) == IF f.dir = "absent" THEN "ENOENT" ELSE "nil"

\* os.ReadDir of the drop-in directory: the error it returns.
ReadDir(f) ==
    CASE f.dir = "ok" -> "nil"
      [] f.dir = "absent" -> "ENOENT"
      [] OTHER -> "EACCES"

\* Fault: not-found is treated like every other error.
IsNotExistNever(err) == FALSE

\* Fault: every error is treated as not-found.
IsNotExistAnyError(err) == err # "nil"

\* os.IsNotExist
IsNotExist(err) == err = "ENOENT"

\* Fault: the directory is listed without the check of line 151.
DirMissingUnchecked(f) == FALSE

\* Line 151: the drop-in directory does not exist.
DirMissing(f) == IsNotExist(Stat(f))

\* os.ReadDir: the entries that exist, in any order.
Present(f) == {n \in Names : f.entries[n].kind # "absent"}

RECURSIVE Orderings(_)
Orderings(S) ==
    IF S = {} THEN {<<>>}
    ELSE UNION {{<<n>> \o l : l \in Orderings(S \ {n})} : n \in S}

Listings(f) == Orderings(Present(f))

\* findDropInFiles, lines 161-170: skip directories, keep names ending in
\* ".toml", joined to the directory.
RECURSIVE CollectToml(_, _, _)
CollectToml(f, dir, listing) ==
    IF listing = <<>> THEN <<>>
    ELSE LET name == Head(listing)
             rest == CollectToml(f, dir, Tail(listing))
         IN  IF f.entries[name].kind = "dir" THEN rest
             ELSE IF HasSuffix(name, TomlSuffix) THEN <<Join(dir, name)>> \o rest
             ELSE rest

\* Fault: the paths are left in the order os.ReadDir listed them.
FoundDropInsUnsorted(f, dir, listing) == CollectToml(f, dir, listing)

\* findDropInFiles after a successful os.ReadDir.
FoundDropIns(f, dir, listing) == SortStrings(CollectToml(f, dir, listing))

-----------------------------------------------------------------------------
(* ConfigSource.Read, step by step *)

Returned(config, err) == [config |-> config, err |-> err]
NotReturned == Returned(ZeroConfig, "none")

\* Fault: Read publishes its accumulator in the store.
ReadBaselinePublishing ==
    /\ pc = "baseline"
    /\ LET r == parseConfigDTO(defaultConfig) IN
       IF r.err # "nil"
       THEN /\ result' = Returned(resolved, "parse embedded defaults")
            /\ pc' = "done"
            /\ UNCHANGED <<resolved, Configuration, writes>>
       ELSE /\ resolved' = Update(resolved, r.dto)
            /\ Configuration' = resolved'
            /\ writes' = writes + 1
            /\ pc' = "main"
            /\ UNCHANGED result
    /\ UNCHANGED <<cli, phase, prev, peer, defaultConfig, fs, cs, paths, dtos, ioLog,
                   before, overlay>>

\* Lines 86-94: the embedded defaults.
ReadBaseline ==
    /\ pc = "baseline"
    /\ LET r == parseConfigDTO(defaultConfig) IN
       IF r.err # "nil"
       THEN /\ result' = Returned(resolved, "parse embedded defaults")
            /\ pc' = "done"
            /\ UNCHANGED resolved
       ELSE /\ resolved' = Update(resolved, r.dto)
            /\ pc' = "main"
            /\ UNCHANGED result
    /\ UNCHANGED <<process, defaultConfig, fs, cs, paths, dtos, ioLog, before, overlay>>

\* Fault: a main file that does not parse is passed over.
ReadMainFileLenient ==
    /\ pc = "main"
    /\ ioLog' = Append(ioLog, <<"ReadFile", cs.Path>>)
    /\ LET r == ReadMain(fs)
           p == parseConfigDTO(r.data)
       IN  IF r.err # "nil" /\ IsNotExist(r.err)
           THEN /\ pc' = "dropins"
                /\ UNCHANGED <<resolved, result>>
           ELSE IF r.err # "nil"
           THEN /\ result' = Returned(resolved, "load main")
                /\ pc' = "done"
                /\ UNCHANGED resolved
           ELSE /\ resolved' = Update(resolved, p.dto)
                /\ pc' = "dropins"
                /\ UNCHANGED result
    /\ UNCHANGED <<process, defaultConfig, fs, cs, paths, dtos, before, overlay>>

\* Lines 96-112: the main configuration file.
ReadMainFile ==
    /\ pc = "main"
    /\ ioLog' = Append(ioLog, <<"ReadFile", cs.Path>>)
    /\ LET r == ReadMain(fs)
           p == parseConfigDTO(r.data)
       IN  IF r.err # "nil" /\ IsNotExist(r.err)
           THEN /\ pc' = "dropins"
                /\ UNCHANGED <<resolved, result>>
           ELSE IF r.err # "nil"
           THEN /\ result' = Returned(resolved, "load main")
                /\ pc' = "done"
                /\ UNCHANGED resolved
           ELSE IF p.err # "nil"
           THEN /\ result' = Returned(resolved, "parse main")
                /\ pc' = "done"
                /\ UNCHANGED resolved
           ELSE /\ resolved' = Update(resolved, p.dto)
                /\ pc' = "dropins"
                /\ UNCHANGED result
    /\ UNCHANGED <<process, defaultConfig, fs, cs, paths, dtos, before, overlay>>

\* Line 115 into parseDropInFiles (180) and findDropInFiles (149-176).
FindDropIns ==
    /\ pc = "dropins"
    /\ IF DirMissing(fs)
       THEN /\ ioLog' = Append(ioLog, <<"Stat", cs.DropInDir>>)
            /\ paths' = <<>>
            /\ pc' = "load"
            /\ UNCHANGED result
       ELSE /\ ioLog' = ioLog \o << <<"Stat", cs.DropInDir>>,
                                    <<"ReadDir", cs.DropInDir>> >>
            /\ IF ReadDir(fs) # "nil"
               THEN /\ result' = Returned(resolved, "read drop-in directory")
                    /\ pc' = "done"
                    /\ UNCHANGED paths
               ELSE /\ \E listing \in Listings(fs) :
                          paths' = FoundDropIns(fs, cs.DropInDir, listing)
                    /\ pc' = "load"
                    /\ UNCHANGED result
    /\ UNCHANGED <<process, defaultConfig, fs, cs, resolved, dtos, before, overlay>>

\* Fault: the drop-ins loaded before the failing one are applied.
DropInFailureApplied(config, loaded, err) ==
    Returned(ApplyAll(config, loaded), err)

\* What Read hands back when parseDropInFiles fails (lines 116-119).
DropInFailure(config, loaded, err) == Returned(config, err)

\* Fault: a drop-in that cannot be read or parsed is passed over and the
\* loop goes on.
LoadDropInIgnoringErrors ==
    /\ pc = "load"
    /\ Len(dtos) < Len(paths)
    /\ LET path == paths[Len(dtos) + 1]
           r == ReadEntry(fs, path)
           p == parseConfigDTO(r.data)
       IN  /\ ioLog' = Append(ioLog, <<"ReadFile", path>>)
           /\ dtos' = Append(dtos, p.dto)
    /\ UNCHANGED <<process, defaultConfig, fs, cs, pc, resolved, paths, result, before,
                   overlay>>

\* Fault: each drop-in is applied as soon as it is loaded.
LoadDropInApplying ==
    /\ pc = "load"
    /\ Len(dtos) < Len(paths)
    /\ LET path == paths[Len(dtos) + 1]
           r == ReadEntry(fs, path)
           p == parseConfigDTO(r.data)
       IN  /\ ioLog' = Append(ioLog, <<"ReadFile", path>>)
           /\ IF r.err # "nil"
              THEN /\ result' = DropInFailure(resolved, dtos, "load drop-in")
                   /\ dtos' = <<>>
                   /\ pc' = "done"
                   /\ UNCHANGED resolved
              ELSE IF p.err # "nil"
              THEN /\ result' = DropInFailure(resolved, dtos, "parse drop-in")
                   /\ dtos' = <<>>
                   /\ pc' = "done"
                   /\ UNCHANGED resolved
              ELSE /\ dtos' = Append(dtos, p.dto)
                   /\ resolved' = Update(resolved, p.dto)
                   /\ UNCHANGED <<result, pc>>
    /\ UNCHANGED <<process, defaultConfig, fs, cs, paths, before, overlay>>

\* Fault: a listed drop-in that is not found is skipped, as a main file
\* that is not found is.
LoadDropInSkippingMissing ==
    /\ pc = "load"
    /\ Len(dtos) < Len(paths)
    /\ LET path == paths[Len(dtos) + 1]
           r == ReadEntry(fs, path)
           p == parseConfigDTO(r.data)
       IN  /\ ioLog' = Append(ioLog, <<"ReadFile", path>>)
           /\ IF r.err # "nil" /\ IsNotExist(r.err)
              THEN /\ dtos' = Append(dtos, NilDTO)
                   /\ UNCHANGED <<result, pc>>
              ELSE IF r.err # "nil"
              THEN /\ result' = DropInFailure(resolved, dtos, "load drop-in")
                   /\ dtos' = <<>>
                   /\ pc' = "done"
              ELSE IF p.err # "nil"
              THEN /\ result' = DropInFailure(resolved, dtos, "parse drop-in")
                   /\ dtos' = <<>>
                   /\ pc' = "done"
              ELSE /\ dtos' = Append(dtos, p.dto)
                   /\ UNCHANGED <<result, pc>>
    /\ UNCHANGED <<process, defaultConfig, fs, cs, resolved, paths, before, overlay>>

\* parseDropInFiles, one iteration of the loop of lines 187-199.
LoadDropIn ==
    /\ pc = "load"
    /\ Len(dtos) < Len(paths)
    /\ LET path == paths[Len(dtos) + 1]
           r == ReadEntry(fs, path)
           p == parseConfigDTO(r.data)
       IN  /\ ioLog' = Append(ioLog, <<"ReadFile", path>>)
           /\ IF r.err # "nil"
              THEN /\ result' = DropInFailure(resolved, dtos, "load drop-in")
                   /\ dtos' = <<>>
                   /\ pc' = "done"
              ELSE IF p.err # "nil"
              THEN /\ result' = DropInFailure(resolved, dtos, "parse drop-in")
                   /\ dtos' = <<>>
                   /\ pc' = "done"
              ELSE /\ dtos' = Append(dtos, p.dto)
                   /\ UNCHANGED <<result, pc>>
    /\ UNCHANGED <<process, defaultConfig, fs, cs, resolved, paths, before, overlay>>

\* Fault: the value Read returns is also assigned to the store.
ApplyDropInsPublishing ==
    /\ pc = "load"
    /\ Len(dtos) = Len(paths)
    /\ resolved' = ApplyAll(resolved, dtos)
    /\ result' = Returned(resolved', "nil")
    /\ Configuration' = resolved'
    /\ writes' = writes + 1
    /\ pc' = "done"
    /\ UNCHANGED <<cli, phase, prev, peer, defaultConfig, fs, cs, paths, dtos, ioLog,
                   before, overlay>>

\* Lines 121-126: every drop-in loaded; apply them in order and return.
ApplyDropIns ==
    /\ pc = "load"
    /\ Len(dtos) = Len(paths)
    /\ resolved' = ApplyAll(resolved, dtos)
    /\ result' = Returned(resolved', "nil")
    /\ pc' = "done"
    /\ UNCHANGED <<process, defaultConfig, fs, cs, paths, dtos, ioLog, before, overlay>>

ConfigSources == {[Path |-> MainPath, DropInDir |-> DropInDir]}

\* No second goroutine.
NoPeer == [pc |-> "none"]

\* No command action is running.
NoCtx == [command |-> "none"]
NoAct == [pc |-> "none"]

CliIdle ==
    /\ Global = ZeroConfig
    /\ ctx = NoCtx
    /\ act = NoAct
    /\ calls = <<>>

\* A Read call has just been entered (line 86), on a build whose embedded
\* document is `builds`' choice.
InitRead(builds) ==
    /\ defaultConfig \in builds
    /\ fs \in Filesystems
    /\ cs \in ConfigSources
    /\ pc = "baseline"
    /\ resolved = ZeroConfig
    /\ paths = <<>>
    /\ dtos = <<>>
    /\ result = NotReturned
    /\ ioLog = <<>>
    /\ before = ZeroConfig
    /\ overlay = NilDTO
    /\ prev = NotReturned
    /\ peer = NoPeer
    /\ CliIdle

\* A caller outside the package calls Read; func init() has run, on a host
\* with no configuration file.
Init ==
    /\ InitRead({DefaultDoc})
    /\ phase = "main"
    /\ Configuration = Update(ZeroConfig, parseConfigDTO(DefaultDoc).dto)
    /\ writes = 1

Next ==
    \/ ReadBaseline
    \/ ReadMainFile
    \/ FindDropIns
    \/ LoadDropIn
    \/ ApplyDropIns

Spec == Init /\ [][Next]_vars

-----------------------------------------------------------------------------
(* func init(): the Read call on the canonical locations, then the store *)

\* Fault: the value Read returned with its error is installed as it is.
InitFallbackNone(config, dto) == config

\* Line 26: config.Update(dto), on the value Read returned with its error.
InitFallback(config, dto) == Update(config, dto)

\* Fault: a failed Read is enough to panic.
PanicsOnAnyError(readErr, parseErr) == readErr # "nil"

\* Fault: never panics.
PanicsNever(readErr, parseErr) == FALSE

\* Lines 21-25: panic when Read failed and the embedded document does not
\* parse.
Panics(readErr, parseErr) == readErr # "nil" /\ parseErr # "nil"

\* Lines 21-28, after sources.Read() has returned.
InitInstall ==
    /\ phase = "init"
    /\ pc = "done"
    /\ LET r == parseConfigDTO(defaultConfig) IN
       IF Panics(result.err, r.err)
       THEN /\ phase' = "panic"
            /\ UNCHANGED <<Configuration, writes>>
       ELSE /\ Configuration' = IF result.err # "nil"
                                THEN InitFallback(result.config, r.dto)
                                ELSE result.config
            /\ writes' = writes + 1
            /\ phase' = "main"
    /\ UNCHANGED <<cli, defaultConfig, fs, cs, pc, resolved, paths, dtos,
                   result, ioLog, before, overlay, prev, peer>>

\* func init() is entered, on any build: the embedded document may fail to
\* parse.  The store holds the zero Config until line 28.
InitAnyBuild ==
    /\ InitRead({DefaultDoc, Malformed})
    /\ phase = "init"
    /\ Configuration = ZeroConfig
    /\ writes = 0

NextInit ==
    \/ ReadBaseline
    \/ ReadMainFile
    \/ FindDropIns
    \/ LoadDropIn
    \/ ApplyDropIns
    \/ InitInstall

SpecAnyBuild == InitAnyBuild /\ [][NextInit]_vars

-----------------------------------------------------------------------------
(* The process: func init(), then a caller's own Read *)

\* After package initialization a caller builds a ConfigSource of its own
\* and enters Read (lines 85-86); what the previous call returned is kept.
CallRead ==
    /\ phase = "main"
    /\ pc = "done"
    /\ prev = NotReturned
    /\ prev' = result
    /\ cs' \in ConfigSources
    /\ pc' = "baseline"
    /\ resolved' = ZeroConfig
    /\ paths' = <<>>
    /\ dtos' = <<>>
    /\ result' = NotReturned
    /\ ioLog' = <<>>
    /\ UNCHANGED <<cli, defaultConfig, fs, before, overlay, Configuration,
                   phase, writes, peer>>

InitProcess ==
    /\ InitRead({DefaultDoc})
    /\ phase = "init"
    /\ Configuration = ZeroConfig
    /\ writes = 0

NextProcess ==
    \/ ReadBaseline
    \/ ReadMainFile
    \/ FindDropIns
    \/ LoadDropIn
    \/ ApplyDropIns
    \/ InitInstall
    \/ CallRead

SpecProcess == InitProcess /\ [][NextProcess]_vars

-----------------------------------------------------------------------------
(* Two Read calls on two goroutines *)

\* Entries the shared directory holds at most.
MaxPeerEntries == 1

\* The locals of a Read call that has just been entered on ConfigSource c.
FreshCall(c) ==
    [cs |-> c, pc |-> "baseline", resolved |-> ZeroConfig, paths |-> <<>>,
     dtos |-> <<>>, result |-> NotReturned, ioLog |-> <<>>]

\* The locals of the running call.
Locals ==
    [cs |-> cs, pc |-> pc, resolved |-> resolved, paths |-> paths,
     dtos |-> dtos, result |-> result, ioLog |-> ioLog]

\* Fault: the accumulator is one variable for every call.
AccumulatorShared(call) == resolved

\* Line 86, resolved := Config{}: the accumulator is a local of the call.
Accumulator(call) == call.resolved

\* The scheduler takes the running call off the processor and resumes the
\* other one where it stood.
Switch ==
    /\ peer # NoPeer
    /\ peer' = Locals
    /\ cs' = peer.cs
    /\ pc' = peer.pc
    /\ resolved' = Accumulator(peer)
    /\ paths' = peer.paths
    /\ dtos' = peer.dtos
    /\ result' = peer.result
    /\ ioLog' = peer.ioLog
    /\ UNCHANGED <<cli, defaultConfig, fs, before, overlay, Configuration,
                   phase, writes, prev>>

SharedFilesystems ==
    {f \in Filesystems : Cardinality(Present(f)) <= MaxPeerEntries}

InitConcurrent ==
    /\ defaultConfig = DefaultDoc
    /\ fs \in SharedFilesystems
    /\ cs \in ConfigSources
    /\ pc = "baseline"
    /\ resolved = ZeroConfig
    /\ paths = <<>>
    /\ dtos = <<>>
    /\ result = NotReturned
    /\ ioLog = <<>>
    /\ peer \in {FreshCall(c) : c \in ConfigSources}
    /\ CliIdle
    /\ before = ZeroConfig
    /\ overlay = NilDTO
    /\ prev = NotReturned
    /\ phase = "main"
    /\ Configuration = Update(ZeroConfig, parseConfigDTO(DefaultDoc).dto)
    /\ writes = 1

NextConcurrent ==
    \/ ReadBaseline
    \/ ReadMainFile
    \/ FindDropIns
    \/ LoadDropIn
    \/ ApplyDropIns
    \/ Switch

SpecConcurrent == InitConcurrent /\ [][NextConcurrent]_vars

-----------------------------------------------------------------------------
(* Config.Update on its own, for every receiver and every overlay *)

PathValues == {"", "/a", "/b"}
Tokens == LevelNames \cup {"TRACE", "debug", ""}
Levels == {SlogLevel(n) : n \in LevelNames} \cup {2}

Opt(S) == {{}} \cup {{v} : v \in S}

Configs ==
    [CADir : PathValues, CertFile : PathValues, KeyFile : PathValues,
     LogLevel : Levels]

DTOs ==
    [CertFile : Opt(PathValues), KeyFile : Opt(PathValues),
     LogLevel : Opt(Tokens), CADir : Opt(PathValues)]

InitUpdate ==
    /\ defaultConfig = DefaultDoc
    /\ fs = [main |-> NoFile, dir |-> "absent", entries |-> [n \in Names |-> NoFile]]
    /\ cs \in ConfigSources
    /\ pc = "update"
    /\ resolved \in Configs
    /\ overlay \in DTOs
    /\ before = resolved
    /\ paths = <<>>
    /\ dtos = <<>>
    /\ result = NotReturned
    /\ ioLog = <<>>
    /\ prev = NotReturned
    /\ peer = NoPeer
    /\ CliIdle
    /\ phase = "main"
    /\ Configuration = Update(ZeroConfig, parseConfigDTO(DefaultDoc).dto)
    /\ writes = 1

\* c.Update(dto)
CallUpdate ==
    /\ pc = "update"
    /\ before' = resolved
    /\ resolved' = Update(resolved, overlay)
    /\ pc' = "updated"
    /\ UNCHANGED <<process, defaultConfig, fs, cs, paths, dtos, result, ioLog, overlay>>

NextUpdate == CallUpdate

SpecUpdate == InitUpdate /\ [][NextUpdate]_vars

-----------------------------------------------------------------------------
(* A Read call while another process removes a drop-in file *)

\* Between findDropInFiles (line 180) and os.ReadFile (line 188) another
\* process removes a listed file that has not been read yet.  A file that
\* has been read is not read again, so its removal changes nothing.
RemoveDropIn ==
    /\ pc = "load"
    /\ \E i \in (Len(dtos) + 1)..Len(paths) :
          /\ fs.entries[Base(paths[i])].kind # "absent"
          /\ fs' = [fs EXCEPT !.entries[Base(paths[i])] = NoFile]
    /\ UNCHANGED <<process, defaultConfig, cs, pc, resolved, paths, dtos,
                   result, ioLog, before, overlay>>

InitRemoval ==
    /\ defaultConfig = DefaultDoc
    /\ fs \in SharedFilesystems
    /\ cs \in ConfigSources
    /\ pc = "baseline"
    /\ resolved = ZeroConfig
    /\ paths = <<>>
    /\ dtos = <<>>
    /\ result = NotReturned
    /\ ioLog = <<>>
    /\ before = ZeroConfig
    /\ overlay = NilDTO
    /\ prev = NotReturned
    /\ peer = NoPeer
    /\ CliIdle
    /\ phase = "main"
    /\ Configuration = Update(ZeroConfig, parseConfigDTO(DefaultDoc).dto)
    /\ writes = 1

NextRemoval ==
    \/ ReadBaseline
    \/ ReadMainFile
    \/ FindDropIns
    \/ LoadDropIn
    \/ ApplyDropIns
    \/ RemoveDropIn

SpecRemoval == InitRemoval /\ [][NextRemoval]_vars

-----------------------------------------------------------------------------
(* Discovery under any drop-in directory path *)

\* Values of ConfigSource.DropInDir: empty, the root, relative, absolute,
\* with trailing and doubled separators, with a byte below the separator.
DirPaths ==
    { <<>>, <<"/">>, <<"d">>, <<"/", "d">>, <<"/", "d", "/">>,
      <<"d", "/", "/">>, <<"/", "d", "-", "/", "d">> }

\* Directories whose entries are missing, subdirectories or empty files.
ListedFilesystems ==
    { [main |-> NoFile, dir |-> "ok", entries |-> e]
        : e \in [Names -> {NoFile, SubDir, File(EmptyDoc)}] }

\* Read has found no main file and is about to call parseDropInFiles.
InitDirs ==
    /\ defaultConfig = DefaultDoc
    /\ fs \in ListedFilesystems
    /\ cs \in {[Path |-> MainPath, DropInDir |-> dir] : dir \in DirPaths}
    /\ pc = "dropins"
    /\ resolved = Update(ZeroConfig, parseConfigDTO(DefaultDoc).dto)
    /\ paths = <<>>
    /\ dtos = <<>>
    /\ result = NotReturned
    /\ ioLog = << <<"ReadFile", cs.Path>> >>
    /\ before = ZeroConfig
    /\ overlay = NilDTO
    /\ prev = NotReturned
    /\ peer = NoPeer
    /\ CliIdle
    /\ phase = "main"
    /\ Configuration = Update(ZeroConfig, parseConfigDTO(DefaultDoc).dto)
    /\ writes = 1

NextDirs == FindDropIns

SpecDirs == InitDirs /\ [][NextDirs]_vars

-----------------------------------------------------------------------------
(* Any sequence of Update calls on one Config, from the zero value *)

InitFold ==
    /\ defaultConfig = DefaultDoc
    /\ fs = [main |-> NoFile, dir |-> "absent", entries |-> [n \in Names |-> NoFile]]
    /\ cs \in ConfigSources
    /\ pc = "fold"
    /\ resolved = ZeroConfig
    /\ overlay = NilDTO
    /\ before = ZeroConfig
    /\ paths = <<>>
    /\ dtos = <<>>
    /\ result = NotReturned
    /\ ioLog = <<>>
    /\ prev = NotReturned
    /\ peer = NoPeer
    /\ CliIdle
    /\ phase = "main"
    /\ Configuration = Update(ZeroConfig, parseConfigDTO(DefaultDoc).dto)
    /\ writes = 1

\* c.Update(dto) once more, with any overlay; only the last overlay is kept.
FoldUpdate ==
    /\ pc = "fold"
    /\ \E dto \in DTOs :
          /\ overlay' = dto
          /\ resolved' = Update(resolved, dto)
    /\ UNCHANGED <<process, defaultConfig, fs, cs, pc, paths, dtos, result,
                   ioLog, before>>

NextFold == FoldUpdate

SpecFold == InitFold /\ [][NextFold]_vars

-----------------------------------------------------------------------------
(* The layers of a resolution, read off the filesystem *)

\* The drop-in files of the directory: entries that are not directories
\* and whose name ends in ".toml".
DropIns(f) ==
    IF f.dir # "ok" THEN {}
    ELSE {n \in Names : /\ f.entries[n].kind \notin {"absent", "dir"}
                        /\ HasSuffix(n, TomlSuffix)}

\* The drop-in files in ascending byte-wise order of file name.
DropInOrder(f) ==
    LET S == DropIns(f) IN
    [i \in 1..Cardinality(S) |->
        CHOOSE n \in S : Cardinality({m \in S : StrLess(m, n)}) = i - 1]

Parseable(e) == e.kind = "file" /\ e.data.wellformed

DTOOf(e) == parseConfigDTO(e.data).dto

BaselineDTO == parseConfigDTO(defaultConfig).dto

\* The overlays of the first k drop-in files, in order.
DropInLayers(f, k) == [i \in 1..k |-> DTOOf(f.entries[DropInOrder(f)[i]])]

MainLayer(f) == IF f.main.kind = "file" THEN <<DTOOf(f.main)>> ELSE <<>>

\* Baseline, main file if it exists, then every drop-in file.
Layers(f) ==
    <<BaselineDTO>> \o MainLayer(f) \o DropInLayers(f, Cardinality(DropIns(f)))

\* What the last layer that marks a field present gives for it: {} when no
\* layer does.
LastGiven(layers, fld) ==
    LET I == {i \in 1..Len(layers) : layers[i][fld] # {}} IN
    IF I = {} THEN {}
    ELSE layers[CHOOSE i \in I : \A j \in I : j <= i][fld]

\* The Config value a present overlay value stands for.  A log-level token
\* outside the enumeration stands for the safe default, INFO.
Given(fld, v) ==
    IF fld # "LogLevel" THEN v
    ELSE IF v \in LevelNames THEN SlogLevel(v) ELSE SlogLevel("INFO")

\* Every file the resolution reads exists, is readable and decodes.
AllLayersParse(f) ==
    /\ f.main.kind \in {"absent", "file"}
    /\ f.main.kind = "file" => f.main.data.wellformed
    /\ f.dir \in {"absent", "ok"}
    /\ \A n \in DropIns(f) : Parseable(f.entries[n])

\* The value after the baseline stage, and after the main-file stage.
BaselineOnly == Update(ZeroConfig, BaselineDTO)

AfterMain(f) ==
    IF Parseable(f.main) THEN Update(BaselineOnly, DTOOf(f.main)) ELSE BaselineOnly

Succeeded == pc = "done" /\ result.err = "nil"
Failed == pc = "done" /\ result.err # "nil"

-----------------------------------------------------------------------------
(* Claims *)

\* C1: when Read succeeds, every field of the returned Config equals the
\* value given by the last layer that marks the field present, the layers
\* being baseline, main file, drop-ins in ascending file name order.
C1_LastLayerWins ==
    Succeeded =>
        \A fld \in Fields :
            LET g == LastGiven(Layers(fs), fld) IN
            g # {} => result.config[fld] = Given(fld, Deref(g))

\* C2: after c.Update(d), every field d leaves nil has the value it had
\* before the call; an overlay with every field nil leaves c unchanged.
C2_PresenceLaw ==
    pc = "updated" =>
        /\ \A fld \in Fields : overlay[fld] = {} => resolved[fld] = before[fld]
        /\ overlay = NilDTO => resolved = before

\* C2 witness: Update has run on a receiver with non-zero fields and an
\* overlay that sets some fields and leaves others nil.
C2_Witness ==
    /\ pc = "updated"
    /\ overlay.KeyFile = {} /\ overlay.LogLevel = {}
    /\ overlay.CertFile = {"/b"}
    /\ before.KeyFile = "/a" /\ before.LogLevel = 8 /\ before.CertFile = "/a"
    /\ resolved # before

\* C3: after applying an overlay, every field the overlay marks present
\* has exactly the overlay's value, whatever it was before.
C3_OverwriteLaw ==
    pc = "updated" =>
        \A fld \in Fields :
            overlay[fld] # {} => resolved[fld] = Given(fld, Deref(overlay[fld]))

\* C4: of two parseable drop-ins A < B that give a field different values,
\* with no later drop-in giving that field, a successful Read returns B's
\* value.
C4_OrderingLaw ==
    Succeeded =>
        \A a, b \in DropIns(fs) : \A fld \in Fields :
            LET da == DTOOf(fs.entries[a])
                db == DTOOf(fs.entries[b])
            IN  ( /\ StrLess(a, b)
                  /\ da[fld] # {} /\ db[fld] # {} /\ da[fld] # db[fld]
                  /\ \A c \in DropIns(fs) :
                        StrLess(b, c) => DTOOf(fs.entries[c])[fld] = {} )
                => result.config[fld] = Given(fld, Deref(db[fld]))

\* C5: with no main file and no drop-in directory, Read returns a nil error
\* and the Config obtained by applying the baseline overlay to Config{}.
C5_NoFileEquivalence ==
    (pc = "done" /\ fs.main.kind = "absent" /\ fs.dir = "absent") =>
        /\ result.err = "nil"
        /\ result.config = Update(ZeroConfig, BaselineDTO)

\* C5 witness: such a Read has returned, having looked for both.
C5_Witness ==
    /\ pc = "done" /\ fs.main.kind = "absent" /\ fs.dir = "absent"
    /\ ioLog = << <<"ReadFile", cs.Path>>, <<"Stat", cs.DropInDir>> >>

\* The first drop-in file, in order, that is unreadable or malformed
\* (0 when there is none), and the first that is malformed.
FirstBad(f) ==
    LET B == {i \in 1..Cardinality(DropIns(f)) :
                 ~Parseable(f.entries[DropInOrder(f)[i]])}
    IN  IF B = {} THEN 0 ELSE CHOOSE i \in B : \A j \in B : i <= j

FirstMalformed(f) ==
    LET B == {i \in 1..Cardinality(DropIns(f)) :
                 LET e == f.entries[DropInOrder(f)[i]]
                 IN  e.kind = "file" /\ ~e.data.wellformed}
    IN  IF B = {} THEN 0 ELSE CHOOSE i \in B : \A j \in B : i <= j

\* The main-file stage passes and the first drop-in that cannot be loaded
\* is a malformed one.
MalformedDropInStops(f) ==
    /\ f.main.kind = "absent" \/ Parseable(f.main)
    /\ FirstBad(f) # 0
    /\ FirstBad(f) = FirstMalformed(f)

\* C6 as stated: with parseable drop-ins followed by a malformed one, the
\* Config returned with the error reflects every drop-in sorting before
\* the malformed one.
C6_PartialValueAsStated ==
    (pc = "done" /\ MalformedDropInStops(fs)) =>
        /\ result.err # "nil"
        /\ result.config =
              ApplyAll(AfterMain(fs), DropInLayers(fs, FirstBad(fs) - 1))

\* C6 amended: with parseable drop-ins followed by a malformed one, Read
\* returns a non-nil error and the value of the main-file stage; the
\* drop-ins sorting before the malformed one are not reflected in it.
C6_FailLoudValue ==
    (pc = "done" /\ MalformedDropInStops(fs)) =>
        /\ result.err # "nil"
        /\ result.config = AfterMain(fs)

\* C6 witness: Read has failed on a malformed drop-in that follows
\* parseable ones whose fields would have changed the value.
C6_Witness ==
    /\ pc = "done" /\ MalformedDropInStops(fs)
    /\ FirstBad(fs) >= 2
    /\ ApplyAll(AfterMain(fs), DropInLayers(fs, FirstBad(fs) - 1)) # AfterMain(fs)
    /\ Len(ioLog) >= 5

\* The values baseline, main file and the first k drop-ins give a field.
ValuesGiven(f, k, fld) ==
    LET ls == <<BaselineDTO>> \o MainLayer(f) \o DropInLayers(f, k) IN
    {Given(fld, Deref(ls[i][fld])) :
        i \in {j \in 1..Len(ls) :
                 /\ ls[j][fld] # {}
                 /\ fld = "LogLevel" => Deref(ls[j][fld]) \in LevelNames}}

\* C7: when a drop-in file is malformed, every field of the Config Read
\* returns comes from the baseline, the main file or a drop-in sorting
\* strictly before the malformed one.
C7_NothingLaterApplied ==
    (pc = "done" /\ FirstMalformed(fs) # 0) =>
        \A fld \in Fields :
            result.config[fld] \in ValuesGiven(fs, FirstMalformed(fs) - 1, fld)

\* C7 witness: Read has failed to parse a drop-in, and a drop-in sorting
\* after it gives a field a value no earlier layer gives.
C7_Witness ==
    /\ pc = "done" /\ MalformedDropInStops(fs)
    /\ result.err = "parse drop-in"
    /\ \E i \in (FirstMalformed(fs) + 1)..Cardinality(DropIns(fs)) :
          \E fld \in Fields :
             LET d == DTOOf(fs.entries[DropInOrder(fs)[i]]) IN
             /\ d[fld] # {}
             /\ Given(fld, Deref(d[fld]))
                   \notin ValuesGiven(fs, FirstMalformed(fs) - 1, fld)

\* C8: a main file that exists but fails to parse makes Read return an
\* error with the baseline-only value; the drop-in directory is not
\* listed and no drop-in is read or applied.
C8_MalformedMainFile ==
    (pc = "done" /\ fs.main.kind = "file" /\ ~fs.main.data.wellformed) =>
        /\ result.err # "nil"
        /\ result.config = BaselineOnly
        /\ ioLog = << <<"ReadFile", cs.Path>> >>

\* C8 witness: Read has returned on a malformed main file beside a
\* directory holding a parseable drop-in that would change the value.
C8_Witness ==
    /\ pc = "done" /\ fs.main.kind = "file" /\ ~fs.main.data.wellformed
    /\ \E n \in DropIns(fs) :
          /\ Parseable(fs.entries[n])
          /\ Update(BaselineOnly, DTOOf(fs.entries[n])) # BaselineOnly

\* C9: Read returns a nil error exactly when the baseline parses, the main
\* file is absent or readable and parseable, the directory is absent or
\* listable, and every drop-in file is readable and parseable; no
\* filesystem call is made twice.
C9_NilErrorIff ==
    pc = "done" =>
        /\ result.err = "nil" <=> (defaultConfig.wellformed /\ AllLayersParse(fs))
        /\ \A i, j \in 1..Len(ioLog) : i # j => ioLog[i] # ioLog[j]

\* C9 witness: Read has failed on a directory it may not list, after a
\* main file that parsed.
C9_Witness ==
    /\ pc = "done" /\ result.err # "nil"
    /\ defaultConfig.wellformed /\ Parseable(fs.main) /\ fs.dir = "denied"
    /\ Len(ioLog) = 3

\* C10: without a drop-in directory discovery yields the empty sequence,
\* and Read on a parseable main file returns a nil error and the baseline
\* overlaid with the main file.
C10_MissingDropInDir ==
    (fs.dir = "absent" /\ Parseable(fs.main)) =>
        /\ pc = "load" => paths = <<>>
        /\ pc = "done" =>
              /\ result.err = "nil"
              /\ result.config = Update(BaselineOnly, DTOOf(fs.main))

\* C10 witness: such a Read has returned a value the main file changed.
C10_Witness ==
    /\ pc = "done" /\ fs.dir = "absent" /\ Parseable(fs.main)
    /\ result.config # BaselineOnly
    /\ ioLog[Len(ioLog)] = <<"Stat", cs.DropInDir>>

\* C11: when the Read call made by func init() returns an error, the
\* Config installed in the store is the baseline applied alone to the zero
\* Config, whatever the main file gave before the failure.
C11_StoreFallback ==
    (phase = "main" /\ result.err # "nil") => Configuration = BaselineOnly

\* C11 witness: func init() has installed the store after a drop-in failed
\* behind a main file whose fields were in the value Read returned.
C11_Witness ==
    /\ phase = "main"
    /\ result.err \in {"load drop-in", "parse drop-in"}
    /\ Parseable(fs.main)
    /\ result.config # BaselineOnly
    /\ Configuration = BaselineOnly

\* The steps func init() still has to take, at most.
Remaining ==
    CASE phase # "init" -> 0
      [] pc = "baseline" -> MaxEntries + 6
      [] pc = "main" -> MaxEntries + 5
      [] pc = "dropins" -> MaxEntries + 4
      [] pc = "load" -> 2 + Len(paths) - Len(dtos)
      [] OTHER -> 1

\* func init() can take a step.  At "dropins" the step is FindDropIns, whose
\* only condition beyond the position is that os.ReadDir has an outcome.
CanStep ==
    IF pc = "dropins" THEN Listings(fs) # {} ELSE ENABLED NextInit

\* C12: func init() panics only on a build whose embedded document does not
\* parse; on every other build, whatever the main file and the drop-in
\* directory are, it comes to its end with the store installed: while init
\* runs a step is always possible, and every step brings the end nearer.
C12_Availability ==
    /\ [](phase = "panic" => ~defaultConfig.wellformed)
    /\ [](phase = "init" => CanStep)
    /\ [](Remaining \in Nat)
    /\ [][Remaining' < Remaining]_vars

\* C12 witness: func init() has finished on a host whose main file cannot
\* be read.
C12_Witness ==
    /\ phase = "main"
    /\ defaultConfig.wellformed
    /\ fs.main.kind = "denied"
    /\ result.err = "load main"

\* C13 as stated: on a build whose embedded document does not parse, Read
\* never returns to its caller.
C13_BaselineFailureNotReturned ==
    ~(pc = "done" /\ ~defaultConfig.wellformed)

\* C13: on a build whose embedded document does not parse, Read returns
\* the zero Config with an error before reading any file; the failure is
\* fatal in func init(), which never installs the store and panics.
C13_ReturnedThenFatal ==
    ~defaultConfig.wellformed =>
        /\ pc = "done" =>
              /\ result = Returned(ZeroConfig, "parse embedded defaults")
              /\ ioLog = <<>>
        /\ phase # "main"
        /\ Configuration = ZeroConfig

\* C13 witness: func init() has panicked after Read returned its error.
C13_Witness ==
    /\ phase = "panic"
    /\ pc = "done"
    /\ result.err = "parse embedded defaults"

\* C14: the store is assigned once, by the step that ends func init(): it
\* is unassigned while init runs, no caller's Read starts before that step,
\* and from then on no step assigns it or changes its value.
C14_StoreWrittenOnce ==
    /\ [](writes = IF phase = "main" THEN 1 ELSE 0)
    /\ [](phase # "main" => prev = NotReturned)
    /\ [][writes' # writes => phase = "init" /\ phase' = "main"]_vars
    /\ [][phase = "main" => phase' = "main" /\ Configuration' = Configuration]_vars

\* C14 witness: a caller's Read has returned a value other than the one
\* the store holds.
C14_Witness ==
    /\ phase = "main"
    /\ prev # NotReturned
    /\ pc = "done"
    /\ writes = 1
    /\ result.config # Configuration

\* C15: no step of a caller's Read changes the store, the ConfigSource it
\* was called on or the filesystem, whether the call ends with an error or
\* without.
C15_ReadFrame ==
    [][(phase = "main" /\ prev # NotReturned)
          => UNCHANGED <<Configuration, writes, cs, fs>>]_vars

\* C15 witness: a caller's Read has returned, reading files, the value
\* the store holds, which is not the baseline alone.
C15_Witness ==
    /\ phase = "main"
    /\ prev # NotReturned
    /\ pc = "done"
    /\ result.err = "nil"
    /\ ioLog # <<>>
    /\ Configuration = result.config
    /\ Configuration # BaselineOnly

\* C16: a second Read on the same ConfigSource, over the same filesystem,
\* returns the Config and the error the first one returned.
C16_Idempotent ==
    (prev # NotReturned /\ pc = "done") => result = prev

\* C16 witness: the second Read has returned after applying two drop-ins
\* that give a field different values.
C16_Witness ==
    /\ prev # NotReturned
    /\ pc = "done"
    /\ result.err = "nil"
    /\ \E a, b \in DropIns(fs) : \E fld \in Fields :
          LET da == DTOOf(fs.entries[a])
              db == DTOOf(fs.entries[b])
          IN  a # b /\ da[fld] # {} /\ db[fld] # {} /\ da[fld] # db[fld]

\* C17: when every layer parses and the last layer that gives log-level
\* gives a token outside DEBUG, INFO, WARN, ERROR, the Read of func init()
\* succeeds and the store holds the level INFO.
C17_InvalidLevelInStore ==
    LET g == LastGiven(Layers(fs), "LogLevel") IN
    (/\ phase = "main"
     /\ defaultConfig.wellformed /\ AllLayersParse(fs)
     /\ g # {} /\ Deref(g) \notin LevelNames)
        => /\ result.err = "nil"
           /\ Configuration.LogLevel = SlogLevel("INFO")

\* The name's last five bytes are ".toml".
EndsInToml(n) ==
    /\ Len(n) >= 5
    /\ [i \in 1..5 |-> n[Len(n) - 5 + i]] = <<".", "t", "o", "m", "l">>

\* C18: for a directory that can be listed, discovery returns one path per
\* entry that is not a subdirectory and whose name ends in ".toml", no
\* other path, each the directory joined with the name, in ascending
\* byte-wise order of the names.
C18_Discovery ==
    (pc = "load" /\ fs.dir = "ok") =>
        LET wanted == {n \in Names : /\ fs.entries[n].kind \notin {"absent", "dir"}
                                      /\ EndsInToml(n)}
        IN  /\ {Base(paths[i]) : i \in 1..Len(paths)} = wanted
            /\ Len(paths) = Cardinality(wanted)
            /\ \A i \in 1..Len(paths) :
                  paths[i] = Join(cs.DropInDir, Base(paths[i]))
            /\ \A i, j \in 1..Len(paths) :
                  i < j => StrLess(Base(paths[i]), Base(paths[j]))

\* C18 witness: discovery has returned two paths from a directory that
\* also holds a third entry; "10.toml" comes before "9.toml".
C18_Witness ==
    /\ pc = "load" /\ fs.dir = "ok"
    /\ Len(paths) = 2
    /\ Cardinality(Present(fs)) = 3
    /\ Base(paths[1]) = <<"1", "0", ".", "t", "o", "m", "l">>

\* A document, a file and a filesystem with the unknown keys removed.
StripDoc(data) == [data EXCEPT !.kv = [k \in Keys |-> IF k \in RecognizedKeys THEN data.kv[k] ELSE {}]]

StripFile(e) == IF e.kind = "file" THEN [e EXCEPT !.data = StripDoc(@)] ELSE e

Strip(f) ==
    [f EXCEPT !.main = StripFile(@),
              !.entries = [n \in Names |-> StripFile(f.entries[n])]]

Documents(f) ==
    {e.data : e \in {f.main} \cup {f.entries[n] : n \in Names}}

\* C20: a document with unknown keys beside recognised ones parses without
\* error to the overlay of the document without them, and a Read over
\* parseable layers returns a nil error and the Config of the layers
\* without their unknown keys.
C20_UnknownKeysIgnored ==
    /\ \A data \in Documents(fs) :
          data.wellformed =>
              /\ parseConfigDTO(data).err = "nil"
              /\ parseConfigDTO(data) = parseConfigDTO(StripDoc(data))
    /\ (pc = "done" /\ AllLayersParse(fs)) =>
          /\ result.err = "nil"
          /\ result.config =
                ApplyAll(BaselineOnly,
                         MainLayer(Strip(fs))
                            \o DropInLayers(Strip(fs), Cardinality(DropIns(fs))))

\* C20 witness: Read has succeeded on a main file with an unknown key
\* beside recognised ones, and a drop-in.
C20_Witness ==
    /\ pc = "done"
    /\ result.err = "nil"
    /\ fs.main.kind = "file"
    /\ fs.main.data.kv["extra"] # {}
    /\ fs.main.data.kv["cert-file"] # {}
    /\ StripDoc(fs.main.data) # fs.main.data
    /\ DropIns(fs) # {}

\* What Read returns over filesystem f when it runs alone: the first stage
\* that fails ends it with the value of the stages before.
Alone(f) ==
    IF f.main.kind \notin {"absent", "file"}
    THEN Returned(BaselineOnly, "load main")
    ELSE IF f.main.kind = "file" /\ ~f.main.data.wellformed
    THEN Returned(BaselineOnly, "parse main")
    ELSE IF f.dir = "denied"
    THEN Returned(AfterMain(f), "read drop-in directory")
    ELSE IF FirstBad(f) # 0
    THEN Returned(AfterMain(f),
                  IF f.entries[DropInOrder(f)[FirstBad(f)]].kind = "file"
                  THEN "parse drop-in" ELSE "load drop-in")
    ELSE Returned(ApplyAll(AfterMain(f),
                           DropInLayers(f, Cardinality(DropIns(f)))), "nil")

\* C19: of two Read calls whose steps interleave in any way over one
\* filesystem, each returns what a call running alone returns; a step of
\* one call leaves the locals of the other as they are, and a call resumes
\* with the accumulator it had.
C19_ConcurrentReads ==
    /\ [](pc = "done" => result = Alone(fs))
    /\ [](peer.pc = "done" => peer.result = Alone(fs))
    /\ [][peer' # peer => peer' = Locals /\ resolved' = peer.resolved]_vars

\* C19 witness: one call has returned an error from the drop-in stage
\* while the other, entered before, has only applied the main file.
C19_Witness ==
    /\ pc = "done"
    /\ result.err \in {"load drop-in", "parse drop-in"}
    /\ peer.pc = "dropins"
    /\ peer.resolved # BaselineOnly

\* The four levels of the enumeration.
EnumLevels == {SlogLevel(n) : n \in LevelNames}

\* C21: from the zero Config, after any sequence of Update calls with any
\* overlays, the log level is one of DEBUG, INFO, WARN, ERROR.
C21_LevelInEnumeration ==
    pc = "fold" => resolved.LogLevel \in EnumLevels

\* C21 witness: the last of several Update calls carried an unrecognised
\* token, on a Config whose level an earlier call had set.
C21_Witness ==
    /\ pc = "fold"
    /\ overlay.LogLevel = {"TRACE"}
    /\ resolved.LogLevel = SlogLevel("ERROR")
    /\ resolved.CertFile = "/a"
    /\ overlay.CertFile = {}

\* C25: Update with an overlay whose log-level is present but is not
\* exactly DEBUG, INFO, WARN or ERROR leaves the level as it was and sets
\* cert-file, key-file and ca-dir as the same overlay without a log-level
\* does.
C25_UnrecognisedTokenKeepsLevel ==
    (/\ pc = "updated"
     /\ overlay.LogLevel # {}
     /\ Deref(overlay.LogLevel) \notin {"DEBUG", "INFO", "WARN", "ERROR"})
        => /\ resolved.LogLevel = before.LogLevel
           /\ resolved = Update(before, [overlay EXCEPT !.LogLevel = {}])
           /\ \A fld \in Fields \ {"LogLevel"} :
                 overlay[fld] # {} => resolved[fld] = Deref(overlay[fld])

\* C25 witness: Update has run with the token "debug" and a cert-file on a
\* Config at WARN.
C25_Witness ==
    /\ pc = "updated"
    /\ overlay.LogLevel = {"debug"}
    /\ overlay.CertFile = {"/b"}
    /\ before.LogLevel = SlogLevel("WARN")
    /\ before.CertFile = "/a"
    /\ resolved.CertFile = "/b"

\* C23: while the drop-ins are being read and parsed the accumulator stays
\* at the value of the main-file stage, and when listing the directory,
\* reading a drop-in or parsing one fails, that value is what Read returns
\* with the error.
C23_LoadAllThenApply ==
    /\ pc = "load" => resolved = AfterMain(fs)
    /\ (pc = "done" /\ result.err \in {"read drop-in directory",
                                        "load drop-in", "parse drop-in"})
          => result.config = AfterMain(fs)

\* C23 witness: Read has failed on a drop-in it could not read, after
\* loading a parseable one that would have changed the value.
C23_Witness ==
    /\ pc = "done"
    /\ result.err = "load drop-in"
    /\ FirstBad(fs) >= 2
    /\ Update(AfterMain(fs), DropInLayers(fs, 1)[1]) # AfterMain(fs)
    /\ result.config = AfterMain(fs)

\* C24: whatever the drop-in directory path, the paths discovery returns,
\* which it sorts as joined paths, are the directory joined with the
\* drop-in file names taken in ascending byte-wise order of the names.
C24_JoinedOrderIsNameOrder ==
    pc = "load" =>
        /\ Len(paths) = Cardinality(DropIns(fs))
        /\ \A i \in 1..Len(paths) :
              /\ paths[i] = Join(cs.DropInDir, DropInOrder(fs)[i])
              /\ Base(paths[i]) = DropInOrder(fs)[i]

\* C24 witness: discovery has returned "10.toml" and "9.toml" under a
\* directory path written with doubled trailing separators.
C24_Witness ==
    /\ pc = "load"
    /\ cs.DropInDir = <<"d", "/", "/">>
    /\ Len(paths) = 2
    /\ paths[1] = <<"d", "/", "1", "0", ".", "t", "o", "m", "l">>
    /\ paths[2] = <<"d", "/", "9", ".", "t", "o", "m", "l">>

\* The listed drop-ins that are missing or unreadable.
ListedGone ==
    {i \in 1..Len(paths) : fs.entries[Base(paths[i])].kind \in {"absent", "denied"}}

\* C26: a main file that is not found is passed over without an error;
\* when a listed drop-in is missing or unreadable at the time it is to be
\* read, also after being removed since the listing, Read returns an error
\* and the value of the main-file stage, no drop-in applied.
C26_ListedDropInGone ==
    /\ (fs.main.kind = "absent" /\ pc \in {"dropins", "load"})
          => resolved = BaselineOnly
    /\ (fs.main.kind = "absent" /\ pc = "done")
          => result.err \notin {"load main", "parse main"}
    /\ (pc = "done" /\ ListedGone # {})
          => /\ result.err # "nil"
             /\ result.config = AfterMain(fs)

\* C26 witness: with no main file, Read has failed on a listed drop-in
\* that was removed after the listing.
C26_Witness ==
    /\ pc = "done"
    /\ Len(paths) = 1
    /\ fs.entries[Base(paths[1])].kind = "absent"
    /\ result.err = "load drop-in"
    /\ fs.main.kind = "absent"
    /\ result.config = BaselineOnly


(***************************************************************************)
(* cmd/rhc: beforeAction builds config.Global from the command's flags.    *)
(* A log-level string is a name followed by an optional signed offset,     *)
(* "WARN+2"; it is kept as the two parts strings.IndexAny splits it into.  *)
(***************************************************************************)
LevelNameTexts == {"DEBUG", "debug", "info", "Warn", "ERROR", "TRACE", ""}
OffsetTexts == {"", "+2", "-4", "+x", "-"}
LevelStrings == [name : LevelNameTexts, offset : OffsetTexts]

\* strings.ToUpper on the names above.
ToUpper(s) ==
    CASE s = "debug" -> "DEBUG"
      [] s = "info" -> "INFO"
      [] s = "Warn" -> "WARN"
      [] OTHER -> s

\* strconv.Atoi on the offsets above: the number, or no number on error.
Atoi(s) ==
    CASE s = "+2" -> {2}
      [] s = "-4" -> {0 - 4}
      [] OTHER -> {}

\* slog.Level.UnmarshalText: the level is written only when no error is
\* returned.
UnmarshalText(l, str) ==
    IF str.offset # "" /\ Atoi(str.offset) = {}
    THEN [level |-> l, err |-> "syntax"]
    ELSE IF ToUpper(str.name) \notin LevelNames
    THEN [level |-> l, err |-> "unknown name"]
    ELSE [level |-> SlogLevel(ToUpper(str.name))
                      + (IF str.offset = "" THEN 0
                         ELSE CHOOSE n \in Atoi(str.offset) : TRUE),
          err |-> "nil"]

\* The log-level flag's Value, what c.String gives when the flag is not set.
DefaultLogLevel == [name |-> "info", offset |-> ""]

\* c.IsSet(config.CliLogLevel) and c.String(config.CliLogLevel).
IsSet(c) == c.logLevel # {}
FlagString(c) == IF IsSet(c) THEN Deref(c.logLevel) ELSE DefaultLogLevel

\* What altsrc.NewTomlSourceFromFile finds at the --config path: no readable
\* TOML file, a log-level of the wrong type, or a table that may give log-level.
TomlSources ==
    {[ok |-> FALSE], [ok |-> TRUE, typed |-> FALSE]}
        \cup {[ok |-> TRUE, typed |-> TRUE, logLevel |-> o] :
                 o \in {{}} \cup {{s} : s \in LevelStrings}}

\* altsrc.ApplyInputSourceValues: a flag set on the command line keeps its
\* value.
ApplyInputSourceValues(c, src) ==
    IF IsSet(c) THEN c ELSE [c EXCEPT !.logLevel = src.logLevel]

Contexts ==
    [command : {"rhc"}, config : {"", "f"},
     logLevel : {{}} \cup {{s} : s \in LevelStrings},
     certFile : {"", "c"}, keyFile : {"k"}, noColor : BOOLEAN]

\* A variant that falls back to INFO without saying so.
BeforeLogLevelQuiet(c, src) ==
    LET r == UnmarshalText(SlogLevel("INFO"), FlagString(c))
    IN  [level |-> IF r.err # "nil" THEN SlogLevel("INFO") ELSE r.level,
         said |-> <<>>]

\* beforeAction's log-level block: config.Global.LogLevel starts as the zero
\* value of the Config literal.
BeforeLogLevel(c, src) ==
    LET r == UnmarshalText(ZeroConfig.LogLevel, FlagString(c))
    IN  IF r.err # "nil"
        THEN [level |-> SlogLevel("INFO"),
              said |-> <<[fn |-> "slog.Error", str |-> FlagString(c),
                          src |-> src]>>]
        ELSE [level |-> r.level, said |-> <<>>]

\* beforeAction up to the config file: the file named by --config is loaded
\* into the flags, and a file that cannot be loaded ends the action.
BeforeLoadConfig ==
    /\ act.pc = "before"
    /\ LET cmdline == IF IsSet(ctx) THEN "command line" ELSE ""
       IN  IF ctx.config = ""
           THEN /\ act' = [pc |-> "global", logLevelSrc |-> cmdline]
                /\ UNCHANGED ctx
           ELSE \E src \in TomlSources :
                   IF ~src.ok \/ ~src.typed
                   THEN /\ act' = [pc |-> "returned", err |-> "config"]
                        /\ UNCHANGED ctx
                   ELSE /\ ctx' = ApplyInputSourceValues(ctx, src)
                        /\ act' = [pc |-> "global",
                                   logLevelSrc |->
                                       IF cmdline = "" /\ IsSet(ctx')
                                       THEN "config file" ELSE cmdline]
    /\ UNCHANGED <<Global, calls, conf>>

\* beforeAction from the construction of config.Global to its return.
BeforeSetGlobal ==
    /\ act.pc = "global"
    /\ LET r == BeforeLogLevel(ctx, act.logLevelSrc)
       IN  /\ Global' = [ZeroConfig EXCEPT !.CertFile = ctx.certFile,
                                           !.KeyFile = ctx.keyFile,
                                           !.LogLevel = r.level]
           /\ calls' = calls \o r.said
                           \o <<[fn |-> "slog.SetLogLoggerLevel",
                                 level |-> r.level]>>
    /\ \E terminal \in BOOLEAN :
           ctx' = IF terminal THEN ctx ELSE [ctx EXCEPT !.noColor = TRUE]
    /\ act' = [pc |-> "returned", err |-> "nil",
               logLevelStr |-> FlagString(ctx),
               logLevelSrc |-> act.logLevelSrc]
    /\ UNCHANGED conf

\* The conf package at rest while a command action runs: init has installed
\* the built-in defaults and no Read call is in progress.
ConfIdle ==
    /\ defaultConfig = DefaultDoc
    /\ fs = [main |-> NoFile, dir |-> "absent",
             entries |-> [n \in Names |-> NoFile]]
    /\ cs \in ConfigSources
    /\ pc = "baseline"
    /\ resolved = ZeroConfig
    /\ paths = <<>>
    /\ dtos = <<>>
    /\ result = NotReturned
    /\ ioLog = <<>>
    /\ before = ZeroConfig
    /\ overlay = NilDTO
    /\ prev = NotReturned
    /\ peer = NoPeer
    /\ phase = "main"
    /\ Configuration = Update(ZeroConfig, parseConfigDTO(DefaultDoc).dto)
    /\ writes = 1

InitBefore ==
    /\ ConfIdle
    /\ Global = ZeroConfig
    /\ ctx \in Contexts
    /\ act = [pc |-> "before"]
    /\ calls = <<>>

NextBefore == BeforeLoadConfig \/ BeforeSetGlobal

SpecBefore == InitBefore /\ [][NextBefore]_vars

(***************************************************************************)
(* C22.  Once beforeAction has gone past the construction of               *)
(* config.Global, it returns nil whatever the log-level string was: a      *)
(* string that does not decode leaves config.Global.LogLevel at INFO, and  *)
(* an slog.Error naming the string has been emitted before the logger      *)
(* level is set; a string that decodes gives config.Global.LogLevel the    *)
(* decoded level (name plus offset) and no such diagnostic.                *)
(***************************************************************************)
PastLogLevel == act.pc = "returned" /\ "logLevelStr" \in DOMAIN act

Decoded(str) == UnmarshalText(SlogLevel("INFO"), str)

Diagnosed(str) ==
    \E i \in 1..Len(calls) :
        /\ calls[i].fn = "slog.Error"
        /\ calls[i].str = str
        /\ \E j \in (i + 1)..Len(calls) : calls[j].fn = "slog.SetLogLoggerLevel"

C22_UndecodableLevelIsInfo ==
    PastLogLevel =>
        /\ act.err = "nil"
        /\ IF Decoded(act.logLevelStr).err # "nil"
           THEN Global.LogLevel = SlogLevel("INFO") /\ Diagnosed(act.logLevelStr)
           ELSE /\ Global.LogLevel = Decoded(act.logLevelStr).level
                /\ \A i \in 1..Len(calls) : calls[i].fn # "slog.Error"

\* beforeAction has returned nil for a string with an unknown name, read
\* from the config file.
C22_Witness ==
    /\ PastLogLevel
    /\ Decoded(act.logLevelStr).err = "unknown name"
    /\ act.logLevelSrc = "config file"
    /\ Global.LogLevel = SlogLevel("INFO")


(***************************************************************************)
(* cmd/rhc: disconnectAction.  Each step is a function of the result and   *)
(* the errorMessages map it is handed and of what the system answers; it   *)
(* gives back both, its return value and the calls it made.                *)
(***************************************************************************)
\* errorMessages: map[string]logging.LogMessage, as the set of its entries.
Put(em, step, level) ==
    {e \in em : e.step # step} \cup {[step |-> step, Level |-> level]}

\* logging.HasPriorityErrors.
HasPriorityErrors(em, level) == \E e \in em : e.Level >= level

\* The zero DisconnectResult.
NoDisconnectResult ==
    [HostnameError |-> FALSE, UIDError |-> FALSE,
     YggdrasilStopped |-> FALSE, YggdrasilStoppedError |-> FALSE,
     InsightsDisconnected |-> FALSE, InsightsDisconnectedError |-> FALSE,
     RHSMDisconnected |-> FALSE, RHSMDisconnectedError |-> FALSE]

\* What the system answers to a step: the state query fails, the component
\* is already disconnected, or it is connected and the disconnect call
\* succeeds or fails.
StepAnswers ==
    {[query |-> "error"], [query |-> "disconnected"],
     [query |-> "connected", undo |-> "nil"],
     [query |-> "connected", undo |-> "error"]}

\* disconnectService.
disconnectService(res, em, ans) ==
    IF ans.query = "error"
    THEN [result |-> res, errorMessages |-> em, err |-> "error",
          asked |-> <<"activation.IsServiceInState">>]
    ELSE IF ans.query = "disconnected"
    THEN [result |-> [res EXCEPT !.YggdrasilStopped = TRUE],
          errorMessages |-> em, err |-> "nil",
          asked |-> <<"activation.IsServiceInState">>]
    ELSE IF ans.undo # "nil"
    THEN [result |-> [res EXCEPT !.YggdrasilStopped = FALSE,
                                 !.YggdrasilStoppedError = TRUE],
          errorMessages |-> Put(em, "config.ServiceName", SlogLevel("ERROR")),
          err |-> "error",
          asked |-> <<"activation.IsServiceInState",
                      "activation.DeactivateService">>]
    ELSE [result |-> [res EXCEPT !.YggdrasilStopped = TRUE],
          errorMessages |-> em, err |-> "nil",
          asked |-> <<"activation.IsServiceInState",
                      "activation.DeactivateService">>]

\* disconnectFromInsights.
disconnectFromInsights(res, em, ans) ==
    IF ans.query = "error"
    THEN [result |-> [res EXCEPT !.InsightsDisconnectedError = TRUE],
          errorMessages |-> Put(em, "insights", SlogLevel("ERROR")),
          err |-> "error", asked |-> <<"insights.IsRegistered">>]
    ELSE IF ans.query = "disconnected"
    THEN [result |-> [res EXCEPT !.InsightsDisconnected = TRUE],
          errorMessages |-> em, err |-> "nil",
          asked |-> <<"insights.IsRegistered">>]
    ELSE IF ans.undo # "nil"
    THEN [result |-> [res EXCEPT !.InsightsDisconnected = FALSE,
                                 !.InsightsDisconnectedError = TRUE],
          errorMessages |-> Put(em, "insights", SlogLevel("ERROR")),
          err |-> "error",
          asked |-> <<"insights.IsRegistered", "insights.Unregister">>]
    ELSE [result |-> [res EXCEPT !.InsightsDisconnected = TRUE],
          errorMessages |-> em, err |-> "nil",
          asked |-> <<"insights.IsRegistered", "insights.Unregister">>]

\* disconnectFromRHSM.
disconnectFromRHSM(res, em, ans) ==
    IF ans.query = "error"
    THEN [result |-> [res EXCEPT !.RHSMDisconnectedError = TRUE],
          errorMessages |-> Put(em, "rhsm", SlogLevel("ERROR")),
          err |-> "error", asked |-> <<"rhsm.IsRegistered">>]
    ELSE IF ans.query = "disconnected"
    THEN [result |-> [res EXCEPT !.RHSMDisconnected = TRUE],
          errorMessages |-> em, err |-> "nil",
          asked |-> <<"rhsm.IsRegistered">>]
    ELSE IF ans.undo # "nil"
    THEN [result |-> [res EXCEPT !.RHSMDisconnected = FALSE,
                                 !.RHSMDisconnectedError = TRUE],
          errorMessages |-> Put(em, "rhsm", SlogLevel("ERROR")),
          err |-> "error",
          asked |-> <<"rhsm.IsRegistered", "rhsm.Unregister">>]
    ELSE [result |-> [res EXCEPT !.RHSMDisconnected = TRUE],
          errorMessages |-> em, err |-> "nil",
          asked |-> <<"rhsm.IsRegistered", "rhsm.Unregister">>]

\* A variant that gives up after a failed step.
AfterStepStopping(next, err) == IF err # "nil" THEN "show" ELSE next

\* disconnectAction discards each step's return value: `_ = step(...)`.
AfterStep(next, err) == next

\* interactive.ShowErrorMessages.
ShowErrorMessages(em, machineReadable, logLevel) ==
    IF /\ HasPriorityErrors(em, logLevel)
       /\ ~machineReadable
       /\ HasPriorityErrors(em, SlogLevel("ERROR"))
    THEN "exit 1"
    ELSE "nil"

\* A step of disconnectAction: the step function is called once with the
\* action's result and errorMessages, and its return value is dropped.
DisconnectStep(at, name, r, next) ==
    /\ act.pc = at
    /\ act' = [act EXCEPT !.pc = AfterStep(next, r.err),
                          !.result = r.result,
                          !.errorMessages = r.errorMessages]
    /\ calls' = calls \o <<[fn |-> name, asked |-> r.asked, err |-> r.err]>>
    /\ UNCHANGED <<Global, ctx, conf>>

\* disconnectAction up to the first step: hostname and uid.
DisconnectCollect ==
    /\ act.pc = "collect"
    /\ \E hostnameErr \in BOOLEAN, root \in BOOLEAN :
           act' = [act EXCEPT
                      !.pc = "service",
                      !.result.HostnameError =
                          hostnameErr /\ ctx.machineReadable,
                      !.result.UIDError = ~root /\ ctx.machineReadable]
    /\ UNCHANGED <<Global, ctx, calls, conf>>

DisconnectService ==
    \E ans \in StepAnswers :
        DisconnectStep("service", "disconnectService",
                       disconnectService(act.result, act.errorMessages, ans),
                       "insights")

DisconnectFromInsights ==
    \E ans \in StepAnswers :
        DisconnectStep("insights", "disconnectFromInsights",
                       disconnectFromInsights(act.result, act.errorMessages, ans),
                       "rhsm")

DisconnectFromRHSM ==
    \E ans \in StepAnswers :
        DisconnectStep("rhsm", "disconnectFromRHSM",
                       disconnectFromRHSM(act.result, act.errorMessages, ans),
                       "show")

\* disconnectAction after the steps: the error messages decide the return.
DisconnectShow ==
    /\ act.pc = "show"
    /\ LET err == ShowErrorMessages(act.errorMessages, ctx.machineReadable,
                                    Global.LogLevel)
       IN  act' = [act EXCEPT !.pc = "returned", !.err = err,
                              !.printed = err = "nil" /\ ctx.machineReadable]
    /\ UNCHANGED <<Global, ctx, calls, conf>>

\* config.Global as beforeAction can have left it.
Globals ==
    {[ZeroConfig EXCEPT !.LogLevel = l] :
        l \in {Decoded(s).level : s \in LevelStrings}}

InitDisconnect ==
    /\ ConfIdle
    /\ Global \in Globals
    /\ ctx \in [command : {"disconnect"}, machineReadable : BOOLEAN]
    /\ act = [pc |-> "collect", result |-> NoDisconnectResult,
              errorMessages |-> {}, err |-> "nil", printed |-> FALSE]
    /\ calls = <<>>

NextDisconnect ==
    \/ DisconnectCollect
    \/ DisconnectService
    \/ DisconnectFromInsights
    \/ DisconnectFromRHSM
    \/ DisconnectShow

SpecDisconnect == InitDisconnect /\ [][NextDisconnect]_vars

(***************************************************************************)
(* C27.  disconnectAction calls the three steps in the order service,      *)
(* Insights, RHSM whatever each returns: at any moment the steps called so *)
(* far are a prefix of that order, each called once, and when the action   *)
(* reaches the error report all three have been called.                    *)
(***************************************************************************)
DisconnectOrder ==
    <<"disconnectService", "disconnectFromInsights", "disconnectFromRHSM">>

StepsCalled == [i \in 1..Len(calls) |-> calls[i].fn]

C27_AllThreeInOrder ==
    ctx.command = "disconnect" =>
        /\ Len(calls) <= 3
        /\ StepsCalled = SubSeq(DisconnectOrder, 1, Len(calls))
        /\ act.pc \in {"show", "returned"} => Len(calls) = 3

\* The action has returned after the service step and the Insights step
\* both failed, and the RHSM step was still called.
C27_Witness ==
    /\ ctx.command = "disconnect"
    /\ act.pc = "returned"
    /\ Len(calls) = 3
    /\ calls[1].err # "nil"
    /\ calls[2].err # "nil"
    /\ calls[3].fn = "disconnectFromRHSM"

(***************************************************************************)
(* C30.  Every step of disconnectAction that returned an error has left an *)
(* ERROR entry under its own key in errorMessages, and every step that     *)
(* returned nil has set its flag.  disconnectService breaks the first      *)
(* half: when activation.IsServiceInState fails it returns the error with  *)
(* errorMessages untouched.                                                *)
(***************************************************************************)
StepKey(fn) ==
    CASE fn = "disconnectService" -> "config.ServiceName"
      [] fn = "disconnectFromInsights" -> "insights"
      [] fn = "disconnectFromRHSM" -> "rhsm"

StepFlag(fn) ==
    CASE fn = "disconnectService" -> act.result.YggdrasilStopped
      [] fn = "disconnectFromInsights" -> act.result.InsightsDisconnected
      [] fn = "disconnectFromRHSM" -> act.result.RHSMDisconnected

C30_StepFailureRecorded ==
    ctx.command = "disconnect" =>
        \A i \in 1..Len(calls) :
            IF calls[i].err # "nil"
            THEN [step |-> StepKey(calls[i].fn), Level |-> SlogLevel("ERROR")]
                     \in act.errorMessages
            ELSE StepFlag(calls[i].fn)

\* The Insights and RHSM steps do keep the rule, and so does the service
\* step when the failure is in the deactivation.
FailuresRecordedElsewhere ==
    ctx.command = "disconnect" =>
        \A i \in 1..Len(calls) :
            IF calls[i].err # "nil"
            THEN \/ calls[i].asked = <<"activation.IsServiceInState">>
                 \/ [step |-> StepKey(calls[i].fn), Level |-> SlogLevel("ERROR")]
                        \in act.errorMessages
            ELSE StepFlag(calls[i].fn)


(***************************************************************************)
(* cmd/rhc: connectAction.                                                 *)
(***************************************************************************)
FeatureResult == [Enabled |-> FALSE, Successful |-> FALSE, Error |-> FALSE]

\* The zero ConnectResult.
NoConnectResult ==
    [HostnameError |-> FALSE, UIDError |-> FALSE,
     RHSMConnected |-> FALSE, RHSMConnectError |-> FALSE,
     Content |-> FeatureResult, Analytics |-> FeatureResult,
     RemoteManagement |-> FeatureResult]

\* The outcome of a feature's step: on error only the error is kept (in
\* machine-readable mode), otherwise the feature is reported successful.
FeatureOutcome(res, enabled, err, machineReadable) ==
    IF err # "nil"
    THEN [res EXCEPT !.Error = machineReadable]
    ELSE [res EXCEPT !.Enabled = enabled, !.Successful = TRUE]

\* What a call to the system can return.
Errors == {"nil", "error"}

\* A variant that returns on a failed registration in either output mode.
AfterRegisterReturning(err, machineReadable) ==
    IF err # "nil" THEN "returned" ELSE "insights"

\* connectAction after rhsm.Register: the error is returned in human-readable
\* mode and recorded in machine-readable mode.
AfterRegister(err, machineReadable) ==
    IF err # "nil" /\ ~machineReadable THEN "returned" ELSE "insights"

\* connectAction up to the feature check: hostname, uid, CheckFeatureInput.
ConnectCheck ==
    /\ act.pc = "check"
    /\ \E hostnameErr \in BOOLEAN, root \in BOOLEAN :
           IF ~ctx.featureInput
           THEN act' = [act EXCEPT !.pc = "returned", !.err = "exit data"]
           ELSE act' = [act EXCEPT
                           !.pc = "rhsm",
                           !.result.HostnameError =
                               hostnameErr /\ ctx.machineReadable,
                           !.result.UIDError = ~root /\ ctx.machineReadable]
    /\ UNCHANGED <<Global, ctx, calls, conf>>

\* 1. Register system against Red Hat Subscription Management.
ConnectRHSM ==
    /\ act.pc = "rhsm"
    /\ \E err \in Errors :
           /\ calls' = calls \o <<[fn |-> "rhsm.Register", err |-> err]>>
           /\ act' = [act EXCEPT
                         !.pc = AfterRegister(err, ctx.machineReadable),
                         !.err = IF err # "nil" /\ ~ctx.machineReadable
                                 THEN "rhsm" ELSE "nil",
                         !.result.RHSMConnected = err = "nil",
                         !.result.RHSMConnectError =
                             err # "nil" /\ ctx.machineReadable]
    /\ UNCHANGED <<Global, ctx, conf>>

\* 2. Register system against Red Hat Insights.
ConnectInsights ==
    /\ act.pc = "insights"
    /\ \E err \in IF ctx.features.analytics THEN Errors ELSE {"nil"} :
           /\ calls' = IF ctx.features.analytics
                       THEN calls \o <<[fn |-> "insights.Register", err |-> err]>>
                       ELSE calls
           /\ act' = [act EXCEPT
                         !.pc = "activate",
                         !.result.Analytics =
                             FeatureOutcome(@, ctx.features.analytics, err,
                                            ctx.machineReadable)]
    /\ UNCHANGED <<Global, ctx, conf>>

\* 3. Activate rhc service, then the content feature and the return.
ConnectActivate ==
    /\ act.pc = "activate"
    /\ \E err \in IF ctx.features.management THEN Errors ELSE {"nil"} :
           /\ calls' = IF ctx.features.management
                       THEN calls \o <<[fn |-> "activation.ActivateService",
                                        err |-> err]>>
                       ELSE calls
           /\ act' = [act EXCEPT
                         !.pc = "returned",
                         !.err = "nil",
                         !.result.RemoteManagement =
                             FeatureOutcome(@, ctx.features.management, err,
                                            ctx.machineReadable),
                         !.result.Content =
                             [@ EXCEPT !.Enabled = ctx.features.content,
                                       !.Successful = TRUE]]
    /\ UNCHANGED <<Global, ctx, conf>>

InitConnect ==
    /\ ConfIdle
    /\ Global \in Globals
    /\ ctx \in [command : {"connect"}, machineReadable : BOOLEAN,
                featureInput : BOOLEAN,
                features : [content : BOOLEAN, analytics : BOOLEAN,
                            management : BOOLEAN]]
    /\ act = [pc |-> "check", result |-> NoConnectResult, err |-> "nil"]
    /\ calls = <<>>

NextConnect ==
    \/ ConnectCheck
    \/ ConnectRHSM
    \/ ConnectInsights
    \/ ConnectActivate

SpecConnect == InitConnect /\ [][NextConnect]_vars

(***************************************************************************)
(* C28.  connectAction makes its calls in the order rhsm.Register,         *)
(* insights.Register, activation.ActivateService, each at most once and    *)
(* RHSM first.  When rhsm.Register fails in human-readable mode the action *)
(* returns that error and makes no other call; in machine-readable mode    *)
(* the failure is recorded in the result and, by the time the action       *)
(* returns, insights.Register has been called exactly if the analytics     *)
(* feature is enabled and ActivateService exactly if the management        *)
(* feature is enabled.                                                     *)
(***************************************************************************)
ConnectOrder ==
    <<"rhsm.Register", "insights.Register", "activation.ActivateService">>

Rank(fn) == CHOOSE i \in 1..3 : ConnectOrder[i] = fn

Called(fn) == \E i \in 1..Len(calls) : calls[i].fn = fn

RegisterFailed == Len(calls) >= 1 /\ calls[1].err # "nil"

NoSystemStatus ==
    [RHSMConnected |-> FALSE, InsightsConnected |-> FALSE,
     YggdrasilRunning |-> FALSE, returnCode |-> 0]

\* rhsm.GetConsumerUUID: an error, no consumer, or a consumer UUID.
ConsumerUUIDs == {"error", "", "uuid"}

\* insights.IsRegistered: an error, or whether the host is registered.
Registrations == {"error", "false", "true"}

\* systemd: no connection, no unit list, no yggdrasil unit in the list, or
\* the unit's ActiveState.
UnitStates ==
    {"no connection", "no list", "not found",
     "active", "inactive", "failed", "activating"}

\* rhsmStatus.
rhsmStatus(st, machineReadable, uuid) ==
    IF uuid = "error" THEN st
    ELSE IF uuid = ""
    THEN [st EXCEPT !.returnCode = @ + 1,
                    !.RHSMConnected = IF machineReadable THEN FALSE ELSE @]
    ELSE [st EXCEPT !.RHSMConnected = IF machineReadable THEN TRUE ELSE @]

\* insightsStatus.
insightsStatus(st, machineReadable, registered) ==
    IF registered = "true"
    THEN [st EXCEPT !.InsightsConnected = IF machineReadable THEN TRUE ELSE @]
    ELSE [st EXCEPT !.InsightsConnected = IF machineReadable THEN FALSE ELSE @,
                    !.returnCode = @ + 1]

\* yggdrasilStatus.
yggdrasilStatus(st, machineReadable, unit) ==
    IF unit \in {"no connection", "no list"} THEN st
    ELSE IF unit = "not found"
    THEN [st EXCEPT !.YggdrasilRunning = IF machineReadable THEN FALSE ELSE @,
                    !.returnCode = @ + 1]
    ELSE IF machineReadable
    THEN [st EXCEPT !.YggdrasilRunning = unit = "active"]
    ELSE IF unit = "active" THEN st
    ELSE [st EXCEPT !.returnCode = @ + 1]

\* A check of statusAction: the system is asked and the status updated.
StatusCheck(at, fn, out, st, next) ==
    /\ act.pc = at
    /\ act' = [act EXCEPT !.pc = next, !.systemStatus = st]
    /\ calls' = calls \o <<[fn |-> fn, out |-> out]>>
    /\ UNCHANGED <<Global, ctx, conf>>

StatusRHSM ==
    \E uuid \in ConsumerUUIDs :
        StatusCheck("rhsm", "rhsm.GetConsumerUUID", uuid,
                    rhsmStatus(act.systemStatus, ctx.machineReadable, uuid),
                    "insights")

StatusInsights ==
    \E registered \in Registrations :
        StatusCheck("insights", "insights.IsRegistered", registered,
                    insightsStatus(act.systemStatus, ctx.machineReadable,
                                   registered),
                    "yggdrasil")

StatusYggdrasil ==
    \E unit \in UnitStates :
        StatusCheck("yggdrasil", "conn.ListUnitsContext", unit,
                    yggdrasilStatus(act.systemStatus, ctx.machineReadable,
                                    unit),
                    "exit")

\* os.Exit(systemStatus.returnCode).
StatusExit ==
    /\ act.pc = "exit"
    /\ act' = [act EXCEPT !.pc = "exited",
                          !.exitCode = act.systemStatus.returnCode]
    /\ UNCHANGED <<Global, ctx, calls, conf>>

InitStatus ==
    /\ ConfIdle
    /\ Global \in Globals
    /\ ctx \in [command : {"status"}, machineReadable : BOOLEAN]
    /\ act = [pc |-> "rhsm", systemStatus |-> NoSystemStatus, exitCode |-> 0]
    /\ calls = <<>>

NextStatus ==
    \/ StatusRHSM
    \/ StatusInsights
    \/ StatusYggdrasil
    \/ StatusExit

SpecStatus == InitStatus /\ [][NextStatus]_vars

(***************************************************************************)
(* C29.  When statusAction exits, its exit code is the one it would have   *)
(* computed from the same three answers of the system in the other output  *)
(* mode; and when all three queries were answered, the code is the number  *)
(* of components found not connected or not running.  The code breaks      *)
(* this: in machine-readable mode yggdrasilStatus does not count a unit    *)
(* that is found but not active.                                           *)
(***************************************************************************)
ExitCodeIn(machineReadable) ==
    yggdrasilStatus(
        insightsStatus(
            rhsmStatus(NoSystemStatus, machineReadable, calls[1].out),
            machineReadable, calls[2].out),
        machineReadable, calls[3].out).returnCode

Down(b) == IF b THEN 1 ELSE 0

AllAnswered ==
    /\ calls[1].out # "error"
    /\ calls[2].out # "error"
    /\ calls[3].out \notin {"no connection", "no list"}

=============================================================================
